---- MODULE Spec2Model ----
(***************************************************************************)
(* A model of the job-scanner client and its request pipeline.             *)
(*                                                                         *)
(* The repository holds two clients.  The "direct" client (the App kept    *)
(* in src/api/search.js, lines 279-949) calls the generation endpoint      *)
(* itself, with a retry loop, an extractor and a hardcoded fallback.  The  *)
(* "serverless" client (src/src/App.jsx) calls the application's own       *)
(* /api/search and /api/insights handlers.  The variable app says which    *)
(* of the two is running.                                                  *)
(*                                                                         *)
(* Texts are sequences of tokens: the triple-backtick marker is one        *)
(* token, an object literal is one token, a prose word is one token.       *)
(* Error messages are sequences of tokens too, so that String.includes is  *)
(* a search for a contiguous run of tokens.                                *)
(***************************************************************************)
EXTENDS Integers, Sequences, FiniteSets, TLC

VARIABLES
    app,                    \* "direct" or "serverless": the client that runs
    useFallbackForTesting,  \* the force-fallback switch (serverless client)
    jobs,                   \* React state: the listings shown
    aiInsights,             \* React state: the insights shown
    searchError,            \* React state: the diagnostic shown
    isSearching,            \* React state
    searchProgress,         \* React state
    isFallbackMode,         \* React state
    pc,                     \* where the handleSearch invocation stands
    attempt,                \* loop variable of fetchStructuredJobData
    searchFetches,          \* fetch() calls of the search stage, this invocation
    waits,                  \* backoff delays awaited by the search stage (ms)
    lastOutcome,            \* outcome of the last settled search attempt
    thrown,                 \* message of the error fetchStructuredJobData threw
    succeededAt,            \* attempt whose response.json() resolved, or -1
    cause,                  \* how the job-listing stage ended
    iAttempt,               \* loop variable of fetchAIInsights
    insightFetches,         \* fetch() calls of the insights stage
    iWaits,                 \* backoff delays awaited by the insights stage (ms)
    inFlight,               \* the network calls in flight
    returned,               \* value fetchStructuredJobData returned, or NoValue
    stages,                 \* the stages the running invocation has entered
    iLastOutcome,           \* outcome of the last settled insights attempt
    clicked,                \* effect of the last click on a View Job link
    invocation,             \* number of handleSearch invocations so far
    writer,                 \* invocation that wrote the React state last
    outstanding,            \* invocations that have not run to their end
    log,                    \* request details written to the console
    testPc,                 \* where runSimpleApiTest / runGoldApiTest stands
    testThrown,             \* message of the error the API test threw
    feedback,               \* the feedback map: job id -> 'positive' | 'negative'
    text,                   \* extractor check: the raw text
    extracted,              \* extractor check: what extractJsonFromText gave
    xpc,                    \* extractor check: "input" or "done"
    hreq,                   \* handler check: the request and what the model gives
    hpc,                    \* handler check: the statement the handler is at
    hsent,                  \* handler check: the responses sent, in order
    hReadKey,               \* handler check: process.env.GEMINI_API_KEY was read
    hCalledModel            \* handler check: generateContent was called

appVars == <<app, useFallbackForTesting, jobs, aiInsights, searchError,
             isSearching, searchProgress, isFallbackMode, pc, attempt,
             searchFetches, waits, lastOutcome, thrown, succeededAt, cause,
             iAttempt, insightFetches, iWaits, inFlight,
             returned, stages, iLastOutcome, clicked,
             invocation, writer, outstanding, log, testPc, testThrown,
             feedback>>
traceVars == <<returned, stages, iLastOutcome>>
invocationVars == <<invocation, writer, outstanding>>
testVars == <<log, testPc, testThrown>>
extractVars == <<text, extracted, xpc>>
handlerVars == <<hreq, hpc, hsent, hReadKey, hCalledModel>>
vars == <<appVars, extractVars, handlerVars>>

----------------------------------------------------------------------------
(* Bounds *)

\* longest raw text (in tokens) given to the extractor check
MaxLen == 5

\* most handleSearch invocations followed in one behaviour
MaxInvocations == 2

----------------------------------------------------------------------------
(* Tokens and small helpers *)

\* the triple-backtick marker, one token
Fence == "FENCE"
JsonTag == "json"
WsTokens == {" ", "\n"}
NumTokens == {"1", "2", "3"}
ObjTokens == {"A", "B", "C", "D", "E"}

IsWs(c) == c \in WsTokens

Min(S) == CHOOSE m \in S : \A o \in S : m <= o
Max(S) == CHOOSE m \in S : \A o \in S : m >= o

Positions(s, c) == {i \in 1..Len(s) : s[i] = c}

\* A greedy \s* that starts at position i: the first position it does not eat.
SkipWs(s, i) ==
    Min({j \in i..(Len(s) + 1) :
            /\ \A k \in i..(j - 1) : IsWs(s[k])
            /\ (j = Len(s) + 1 \/ ~IsWs(s[j]))})

\* String.prototype.trim
Trim(s) ==
    LET keep == {i \in 1..Len(s) : ~IsWs(s[i])}
    IN  IF keep = {} THEN <<>> ELSE SubSeq(s, Min(keep), Max(keep))

\* String.prototype.includes, on token sequences
Includes(s, pat) ==
    \E i \in 1..(Len(s) - Len(pat) + 1) : SubSeq(s, i, i + Len(pat) - 1) = pat

----------------------------------------------------------------------------
(* extractJsonFromText *)

NoMatch == [found |-> FALSE, cap |-> <<>>]

\* text.match(/FENCE(?:json)?\s*([\s\S]*?)\s*FENCE/): the leftmost marker that has
\* another marker after it opens the match; the lazy group stops at the first
\* place from which only whitespace separates it from a marker.
markdownMatchGreedy(s) ==
    LET fences == Positions(s, Fence)
    IN  IF Cardinality(fences) < 2 THEN NoMatch
        ELSE LET open == Min(fences)
                 afterTag == IF open + 1 <= Len(s) /\ s[open + 1] = JsonTag
                             THEN open + 2 ELSE open + 1
                 start == SkipWs(s, afterTag)
                 close == Max(fences)
                 capEnd == Min({p \in start..close :
                                  \A k \in p..(close - 1) : IsWs(s[k])})
             IN  [found |-> TRUE, cap |-> SubSeq(s, start, capEnd - 1)]
markdownMatch(s) ==
    LET fences == Positions(s, Fence)
    IN  IF Cardinality(fences) < 2 THEN NoMatch
        ELSE LET open == Min(fences)
                 afterTag == IF open + 1 <= Len(s) /\ s[open + 1] = JsonTag
                             THEN open + 2 ELSE open + 1
                 start == SkipWs(s, afterTag)
                 close == Min({f \in fences : f >= start})
                 capEnd == Min({p \in start..close :
                                  \A k \in p..(close - 1) : IsWs(s[k])})
             IN  [found |-> TRUE, cap |-> SubSeq(s, start, capEnd - 1)]

\* text.match(/(\[[\s\S]*\])/): from the first '[' to the last ']' after it.
arrayMatchLazy(s) ==
    LET opens == Positions(s, "[")
    IN  IF opens = {} THEN NoMatch
        ELSE LET first == Min(opens)
                 closes == {j \in Positions(s, "]") : j > first}
             IN  IF closes = {} THEN NoMatch
                 ELSE [found |-> TRUE, cap |-> SubSeq(s, first, Min(closes))]
arrayMatch(s) ==
    LET opens == Positions(s, "[")
    IN  IF opens = {} THEN NoMatch
        ELSE LET first == Min(opens)
                 closes == {j \in Positions(s, "]") : j > first}
             IN  IF closes = {} THEN NoMatch
                 ELSE [found |-> TRUE, cap |-> SubSeq(s, first, Max(closes))]

extractJsonFromTextUntrimmed(s) ==
    IF markdownMatch(s).found THEN markdownMatch(s).cap
    ELSE IF arrayMatch(s).found THEN arrayMatch(s).cap
    ELSE s
extractJsonFromText(s) ==
    IF markdownMatch(s).found THEN Trim(markdownMatch(s).cap)
    ELSE IF arrayMatch(s).found THEN Trim(arrayMatch(s).cap)
    ELSE Trim(s)

----------------------------------------------------------------------------
(* JSON.parse, on the token grammar                                        *)
(*   value ::= number | null | object literal | '[' [value {',' value}] ']' *)
(* with whitespace allowed around every token.                             *)

IdNone == [k |-> "none"]
IdNum(n) == [k |-> "num", n |-> n]
UrlNone == [k |-> "none"]
UrlStr(s) == [k |-> "str", s |-> s]

\* The object literals a model answer is made of.
ObjOf(tok) ==
    CASE tok = "A" -> [t |-> "obj", id |-> IdNum(1), title |-> "A",
                       url |-> UrlStr(<<"https://", "e.co/1">>)]
      [] tok = "B" -> [t |-> "obj", id |-> IdNum(1), title |-> "B",
                       url |-> UrlStr(<<"/", "jobs/1">>)]
      [] tok = "C" -> [t |-> "obj", id |-> IdNone, title |-> "C",
                       url |-> UrlNone]
      [] tok = "D" -> [t |-> "obj", id |-> IdNum(2), title |-> "D",
                       url |-> UrlStr(<<"http://", "e.co/2">>)]
      [] tok = "E" -> [t |-> "obj", id |-> IdNum(0), title |-> "E",
                       url |-> UrlStr(<<>>)]

TokNum(tok) == CASE tok = "1" -> 1 [] tok = "2" -> 2 [] tok = "3" -> 3

ParseFail == [ok |-> FALSE]

RECURSIVE ParseValue(_, _), ParseElems(_, _, _)
ParseValue(s, i) ==
    LET j == SkipWs(s, i)
    IN  IF j > Len(s) THEN ParseFail
        ELSE IF s[j] \in NumTokens
             THEN [ok |-> TRUE, val |-> [t |-> "num", n |-> TokNum(s[j])], next |-> j + 1]
        ELSE IF s[j] = "null"
             THEN [ok |-> TRUE, val |-> [t |-> "null"], next |-> j + 1]
        ELSE IF s[j] \in ObjTokens
             THEN [ok |-> TRUE, val |-> ObjOf(s[j]), next |-> j + 1]
        ELSE IF s[j] = "["
             THEN LET k == SkipWs(s, j + 1)
                  IN  IF k <= Len(s) /\ s[k] = "]"
                      THEN [ok |-> TRUE, val |-> [t |-> "arr", items |-> <<>>],
                            next |-> k + 1]
                      ELSE ParseElems(s, j + 1, <<>>)
        ELSE ParseFail
ParseElems(s, i, acc) ==
    LET v == ParseValue(s, i)
    IN  IF ~v.ok THEN ParseFail
        ELSE LET k == SkipWs(s, v.next)
             IN  IF k > Len(s) THEN ParseFail
                 ELSE IF s[k] = ","
                      THEN ParseElems(s, k + 1, Append(acc, v.val))
                 ELSE IF s[k] = "]"
                      THEN [ok |-> TRUE,
                            val |-> [t |-> "arr", items |-> Append(acc, v.val)],
                            next |-> k + 1]
                 ELSE ParseFail

JSONparse(s) ==
    LET v == ParseValue(s, 1)
    IN  IF v.ok /\ SkipWs(s, v.next) > Len(s)
        THEN [ok |-> TRUE, val |-> v.val]
        ELSE ParseFail

----------------------------------------------------------------------------
(* Error messages, as token sequences *)

MsgHttp(status) ==
    IF status = 401
    THEN <<"HTTP error! status: ", "401", " (Unauthorized)">>
    ELSE <<"HTTP error! status: ", ToString(status)>>
\* the TypeError of a rejected fetch()
MsgReject == <<"Failed to fetch">>
\* the SyntaxError of a rejected response.json(); it names where parsing stopped
MsgBadJson(pos) == <<"Unexpected token in JSON at position ", pos>>
MsgAfterRetries == <<"API call failed after all retries.">>
MsgNoContent == <<"API response was valid, but contained no content.">>
MsgParse == <<"Failed to parse structured job data: The AI returned improperly formatted data.">>
MsgNotAString == <<"text.match is not a function">>
MsgKeyMissing == <<"GEMINI_API_KEY", " is not set in the production environment.">>
MsgModelFailed == <<"[GoogleGenerativeAI Error]: Error fetching from the model">>
MsgNotJsonBlock == <<"The AI model's response was not in the expected JSON format.">>
MsgJobsNotJson == <<"The AI model's response for jobs was not valid JSON.">>
MsgInsightsNotJsonBlock == <<"The AI model's response for insights was not in the expected JSON format.">>
MsgInsightsNotJson == <<"The AI model's response for insights was not valid JSON.">>

NoError == <<>>

----------------------------------------------------------------------------
(* What the environment can answer *)

\* The raw texts a model answer is drawn from.
SampleTexts ==
    { <<Fence, JsonTag, "\n", "[", "A", ",", "D", "]", "\n", Fence>>,
      <<"x", " ", "[", "1", ",", "2", ",", "3", "]", " ", "x">>,
      <<Fence, JsonTag, "\n", "[", "A", ",", "]", "\n", Fence>>,
      <<Fence, JsonTag, "\n", "[", "]", "\n", Fence>>,
      <<Fence, JsonTag, "\n", "A", "\n", Fence>>,
      <<"[", "A", ",", "B", ",", "C", "]">>,
      <<Fence, JsonTag, "\n", "[", "A", ",", "null", "]", "\n", Fence>>,
      <<Fence, JsonTag, "\n", "[", "E", "]", "\n", Fence>>,
      <<"x", " ", "x">> }

HttpFailures == {401, 429, 500}
JsonErrorPositions == {"7", "401"}

\* The envelope of an HTTP-successful answer of the generation endpoint.
Envelopes ==
    {[kind |-> "null"], [kind |-> "notext"], [kind |-> "nonstring"]}
    \cup {[kind |-> "text", text |-> t] : t \in SampleTexts}

\* How one fetch() of the direct client's search stage can settle.
DirectOutcomes ==
    {[kind |-> "http", status |-> st] : st \in HttpFailures}
    \cup {[kind |-> "reject"]}
    \cup {[kind |-> "badjson", pos |-> p] : p \in JsonErrorPositions}
    \cup {[kind |-> "ok", body |-> e] : e \in Envelopes}

NoOutcome == [kind |-> "none"]

----------------------------------------------------------------------------
(* fetchStructuredJobData of the direct client *)

maxRetries == 5

\* const delay = Math.pow(2, attempt) * 1000, after the failure of `attempt`
BackoffDelayNext(att) == (2 ^ (att + 1)) * 1000
BackoffDelay(att) == (2 ^ att) * 1000

\* The try block of one iteration.
DirectAttempt(o) ==
    CASE o.kind = "http" -> [ok |-> FALSE, msg |-> MsgHttp(o.status)]
      [] o.kind = "reject" -> [ok |-> FALSE, msg |-> MsgReject]
      [] o.kind = "badjson" -> [ok |-> FALSE, msg |-> MsgBadJson(o.pos)]
      [] o.kind = "ok" -> [ok |-> TRUE, result |-> o.body]

\* The catch block of one iteration: rethrow, give up, or wait and go on.
RetryDecisionRetries401(msg, att) ==
    IF att = maxRetries - 1 THEN "fail" ELSE "wait"
RetryDecisionShort(msg, att) ==
    IF Includes(msg, <<"401">>) THEN "rethrow"
    ELSE IF att >= maxRetries - 2 THEN "fail"
    ELSE "wait"
RetryDecision(msg, att) ==
    IF Includes(msg, <<"401">>) THEN "rethrow"
    ELSE IF att = maxRetries - 1 THEN "fail"
    ELSE "wait"

Threw(msg) == [threw |-> TRUE, msg |-> msg]
Returned(val) == [threw |-> FALSE, val |-> val]
NoValue == [t |-> "none"]

\* What follows the loop once response.json() has resolved.
FetchTailUncaught(result) ==
    CASE result.kind = "null" -> Threw(MsgAfterRetries)
      [] result.kind = "notext" -> Threw(MsgNoContent)
      [] result.kind = "nonstring" -> Threw(MsgNotAString)
      [] result.kind = "text" ->
            LET parsed == JSONparse(extractJsonFromText(result.text))
            IN  IF parsed.ok THEN Returned(parsed.val) ELSE Threw(MsgBadJson("7"))
FetchTail(result) ==
    CASE result.kind = "null" -> Threw(MsgAfterRetries)
      [] result.kind = "notext" -> Threw(MsgNoContent)
      [] result.kind = "nonstring" -> Threw(MsgNotAString)
      [] result.kind = "text" ->
            LET parsed == JSONparse(extractJsonFromText(result.text))
            IN  IF parsed.ok THEN Returned(parsed.val) ELSE Threw(MsgParse)

\* The stages that run after the loop: extractJsonFromText is called on a
\* truthy rawText, JSON.parse on what it returns.
TailStages(result) ==
    CASE result.kind = "null" -> <<>>
      [] result.kind = "notext" -> <<>>
      [] result.kind = "nonstring" -> <<"extract">>
      [] result.kind = "text" -> <<"extract", "parse">>

----------------------------------------------------------------------------
(* The /api/search handler and fetchStructuredJobData of the serverless    *)
(* client                                                                  *)

\* text.match(/FENCE json\n([\s\S]*?)\nFENCE/)
handlerMatchAnyFence(s) == markdownMatch(s)
handlerMatch(s) ==
    LET opens == {i \in 1..(Len(s) - 2) :
                     s[i] = Fence /\ s[i + 1] = JsonTag /\ s[i + 2] = "\n"}
        ends(i) == {p \in (i + 3)..(Len(s) - 1) : s[p] = "\n" /\ s[p + 1] = Fence}
        good == {i \in opens : ends(i) # {}}
    IN  IF good = {} THEN NoMatch
        ELSE LET i == Min(good)
             IN  [found |-> TRUE, cap |-> SubSeq(s, i + 3, Min(ends(i)) - 1)]

\* How model.generateContent can end: it throws, or it answers a text.
GenOutcomes == {[ok |-> FALSE]} \cup {[ok |-> TRUE, text |-> t] : t \in SampleTexts}

searchHandler(method, keySet, hasPrompt, gen) ==
    IF method # "POST" THEN [status |-> 405, error |-> <<"Method Not Allowed">>]
    ELSE IF ~keySet THEN [status |-> 500, error |-> MsgKeyMissing]
    ELSE IF ~hasPrompt THEN [status |-> 400, error |-> <<"No prompt provided.">>]
    ELSE IF ~gen.ok THEN [status |-> 500, error |-> MsgModelFailed]
    ELSE LET m == handlerMatch(gen.text)
         IN  IF ~m.found \/ m.cap = <<>>
             THEN [status |-> 500, error |-> MsgNotJsonBlock]
             ELSE LET parsed == JSONparse(m.cap)
                  IN  IF parsed.ok THEN [status |-> 200, data |-> parsed.val]
                      ELSE [status |-> 500, error |-> MsgJobsNotJson]

\* The /api/insights handler.
insightsHandler(method, keySet, hasParams, gen) ==
    IF method # "POST" THEN [status |-> 405, error |-> <<"Method Not Allowed">>]
    ELSE IF ~keySet THEN [status |-> 500, error |-> MsgKeyMissing]
    ELSE IF ~hasParams
         THEN [status |-> 400, error |-> <<"No search parameters provided.">>]
    ELSE IF ~gen.ok THEN [status |-> 500, error |-> MsgModelFailed]
    ELSE LET m == handlerMatch(gen.text)
         IN  IF ~m.found \/ m.cap = <<>>
             THEN [status |-> 500, error |-> MsgInsightsNotJsonBlock]
             ELSE LET parsed == JSONparse(m.cap)
                  IN  IF parsed.ok
                      THEN [status |-> 200, data |-> [insights |-> parsed.val]]
                      ELSE [status |-> 500, error |-> MsgInsightsNotJson]

\* How the fetch('/api/search') of the serverless client can settle.
BackendOutcomes ==
    {[kind |-> "reject"]}
    \cup {[kind |-> "badjson", pos |-> p] : p \in JsonErrorPositions}
    \cup {[kind |-> "response", keySet |-> k, gen |-> g,
           response |-> searchHandler("POST", k, TRUE, g)] :
             k \in BOOLEAN, g \in GenOutcomes}

ResponseOk(r) == r.status \in 200..299

BackendFetch(o) ==
    CASE o.kind = "reject" -> Threw(MsgReject)
      [] o.kind = "badjson" -> Threw(MsgBadJson(o.pos))
      [] o.kind = "response" ->
            IF ~ResponseOk(o.response) THEN Threw(o.response.error)
            ELSE Returned(o.response.data)

----------------------------------------------------------------------------
(* Listings *)

FallbackJob(n) ==
    [t |-> "obj", id |-> IdNum(n), title |-> "fallback", url |-> UrlStr(<<"#">>)]
RICH_FALLBACK_JOBS ==
    <<FallbackJob(101), FallbackJob(102), FallbackJob(103), FallbackJob(104)>>

IsArray(v) == v.t = "arr"

\* { ...job }: the own properties of job; a number or null has none
Spread(job) ==
    IF job.t = "obj" THEN job
    ELSE [t |-> "obj", id |-> IdNone, title |-> "", url |-> UrlNone]

\* job.id ? String(job.id) : ("fallback-job-" + index)
ListingId(job, index) ==
    IF job.t = "obj" /\ job.id.k = "num" /\ job.id.n # 0
    THEN [k |-> "str", s |-> ToString(job.id.n)]
    ELSE [k |-> "str", s |-> "fallback-job-" \o ToString(index)]

\* job.id throws a TypeError when job is null
MapThrows(jobResults) == \E i \in 1..Len(jobResults) : jobResults[i].t = "null"

MapJobs(jobResults) ==
    [i \in 1..Len(jobResults) |->
        [Spread(jobResults[i]) EXCEPT !.id = ListingId(jobResults[i], i - 1)]]

FallbackListings == MapJobs(RICH_FALLBACK_JOBS)

\* String.prototype.startsWith, on token sequences
StartsWith(s, prefix) ==
    Len(s) >= Len(prefix) /\ SubSeq(s, 1, Len(prefix)) = prefix

\* job.url && (job.url.startsWith('http://') || job.url.startsWith('https://'))
isValidUrlAnyText(job) == job.url.k = "str" /\ job.url.s # <<>>
isValidUrl(job) ==
    /\ job.url.k = "str"
    /\ job.url.s # <<>>
    /\ (StartsWith(job.url.s, <<"http://">>) \/ StartsWith(job.url.s, <<"https://">>))

\* onClick={(e) => !isValidUrl && e.preventDefault()} on the View Job link
NoClick == [kind |-> "none"]
ViewJobClick(job) ==
    [kind |-> "click", url |-> job.url, prevented |-> ~isValidUrl(job)]

----------------------------------------------------------------------------
(* The diagnostics of handleSearch and the insights values *)

Unset == <<>>
DiagNoResultsDirect == <<"Search completed, but the model could not find or extract any structured job listings">>
DiagAuthFailed == <<"Authentication Failed (401).">>
DiagCriticalDirect(msg) ==
    <<"A critical API error occurred during the search. Showing fallback data. Error: ">> \o msg
DiagForced == <<"Displaying hardcoded fallback data as requested by the testing setting.">>
DiagNoResults == <<"No Results Found.">>
DiagConfig == <<"Configuration Error: The GEMINI_API_KEY is missing.">>
DiagCritical(msg) ==
    <<"A critical API error occurred during the search. Error: ">> \o msg

CannedInsights == <<"AI Analysis: Based on the Fallback Data provided">>
LiveInsights == <<"insights of the model">>
NoInsightsGenerated == <<"No insights generated.">>
InsightsFailedDirect == <<"Failed to generate insights.">>
InsightsFailed(msg) == <<"Insight generation failed: ">> \o msg

----------------------------------------------------------------------------
(* handleSearch: the job-listing stage *)

\* The try/catch around fetchStructuredJobData, direct client.
ListingDirectUnmarked(res) ==
    IF res.threw
    THEN IF Includes(res.msg, <<"HTTP error! status: ", "401">>)
         THEN [jobResults |-> RICH_FALLBACK_JOBS, isFallback |-> TRUE,
               searchError |-> DiagAuthFailed, cause |-> "auth"]
         ELSE [jobResults |-> RICH_FALLBACK_JOBS, isFallback |-> TRUE,
               searchError |-> DiagCriticalDirect(res.msg), cause |-> "error"]
    ELSE IF ~IsArray(res.val) \/ Len(res.val.items) = 0
         THEN [jobResults |-> RICH_FALLBACK_JOBS, isFallback |-> FALSE,
               searchError |-> DiagNoResultsDirect, cause |-> "noresults"]
         ELSE [jobResults |-> res.val.items, isFallback |-> FALSE,
               searchError |-> NoError, cause |-> "live"]
ListingDirect(res) ==
    IF res.threw
    THEN IF Includes(res.msg, <<"HTTP error! status: ", "401">>)
         THEN [jobResults |-> RICH_FALLBACK_JOBS, isFallback |-> TRUE,
               searchError |-> DiagAuthFailed, cause |-> "auth"]
         ELSE [jobResults |-> RICH_FALLBACK_JOBS, isFallback |-> TRUE,
               searchError |-> DiagCriticalDirect(res.msg), cause |-> "error"]
    ELSE IF ~IsArray(res.val) \/ Len(res.val.items) = 0
         THEN [jobResults |-> RICH_FALLBACK_JOBS, isFallback |-> TRUE,
               searchError |-> DiagNoResultsDirect, cause |-> "noresults"]
         ELSE [jobResults |-> res.val.items, isFallback |-> FALSE,
               searchError |-> NoError, cause |-> "live"]

\* The try/catch around fetchStructuredJobData, serverless client.
ListingServerlessNoConfigTest(res) ==
    IF res.threw
    THEN [jobResults |-> <<>>, isFallback |-> FALSE,
          searchError |-> DiagCritical(res.msg), cause |-> "error"]
    ELSE IF ~IsArray(res.val) \/ Len(res.val.items) = 0
         THEN [jobResults |-> <<>>, isFallback |-> FALSE,
               searchError |-> DiagNoResults, cause |-> "noresults"]
         ELSE [jobResults |-> res.val.items, isFallback |-> FALSE,
               searchError |-> NoError, cause |-> "live"]
ListingServerless(res) ==
    IF res.threw
    THEN IF Includes(res.msg, <<"GEMINI_API_KEY">>)
         THEN [jobResults |-> <<>>, isFallback |-> FALSE,
               searchError |-> DiagConfig, cause |-> "config"]
         ELSE [jobResults |-> <<>>, isFallback |-> FALSE,
               searchError |-> DiagCritical(res.msg), cause |-> "error"]
    ELSE IF ~IsArray(res.val) \/ Len(res.val.items) = 0
         THEN [jobResults |-> <<>>, isFallback |-> FALSE,
               searchError |-> DiagNoResults, cause |-> "noresults"]
         ELSE [jobResults |-> res.val.items, isFallback |-> FALSE,
               searchError |-> NoError, cause |-> "live"]

----------------------------------------------------------------------------
(* The feedback buttons *)

\* useState({}): no job id has a feedback value
NoFeedback == <<>>

FeedbackTypes == {"positive", "negative"}

\* handleFeedback's updater: prevFeedback[job.id] is toggled off by the same
\* type and set by the other one; every other key is spread over unchanged.
handleFeedbackNoToggle(prevFeedback, id, type) ==
    [k \in DOMAIN prevFeedback \cup {id} |->
        IF k = id THEN type ELSE prevFeedback[k]]
handleFeedback(prevFeedback, id, type) ==
    IF id \in DOMAIN prevFeedback /\ prevFeedback[id] = type
    THEN [k \in DOMAIN prevFeedback \ {id} |-> prevFeedback[k]]
    ELSE [k \in DOMAIN prevFeedback \cup {id} |->
             IF k = id THEN type ELSE prevFeedback[k]]

\* handler check: no request is being handled
NoRequest == [handler |-> "none"]

----------------------------------------------------------------------------
(* handleSearch: the insights stage *)

\* fetchAIInsights: if (isFallback) return the canned analysis, before any fetch
InsightsNeedNetworkAlways(isFallback) == TRUE
InsightsNeedNetwork(isFallback) == ~isFallback

\* serverless client: if (finalJobs.length > 0) await generateAIInsights(...)
InsightsWantedAlways(finalJobs) == TRUE
InsightsWanted(finalJobs) == Len(finalJobs) > 0

\* What handleSearch does from generateAIInsights on, up to its next
\* suspension on the network or to its end.
InsightsStageUnconditional(wanted, isFallback) ==
    IF InsightsNeedNetwork(isFallback)
    THEN [pc |-> "insights_fetch", aiInsights |-> aiInsights, isSearching |-> TRUE,
          searchProgress |-> "3/3", insightFetches |-> 1, inFlight |-> {"insights"}]
    ELSE [pc |-> "idle", aiInsights |-> CannedInsights, isSearching |-> FALSE,
          searchProgress |-> "", insightFetches |-> 0, inFlight |-> {}]
InsightsStageEarlyDone(wanted, isFallback) ==
    IF ~wanted
    THEN [pc |-> "idle", aiInsights |-> aiInsights, isSearching |-> FALSE,
          searchProgress |-> "", insightFetches |-> 0, inFlight |-> {}]
    ELSE IF InsightsNeedNetwork(isFallback)
    THEN [pc |-> "insights_fetch", aiInsights |-> aiInsights, isSearching |-> FALSE,
          searchProgress |-> "", insightFetches |-> 1, inFlight |-> {"insights"}]
    ELSE [pc |-> "idle", aiInsights |-> CannedInsights, isSearching |-> FALSE,
          searchProgress |-> "", insightFetches |-> 0, inFlight |-> {}]
InsightsStage(wanted, isFallback) ==
    IF ~wanted
    THEN [pc |-> "idle", aiInsights |-> aiInsights, isSearching |-> FALSE,
          searchProgress |-> "", insightFetches |-> 0, inFlight |-> {}]
    ELSE IF InsightsNeedNetwork(isFallback)
    THEN [pc |-> "insights_fetch", aiInsights |-> aiInsights, isSearching |-> TRUE,
          searchProgress |-> "3/3", insightFetches |-> 1, inFlight |-> {"insights"}]
    ELSE [pc |-> "idle", aiInsights |-> CannedInsights, isSearching |-> FALSE,
          searchProgress |-> "", insightFetches |-> 0, inFlight |-> {}]

\* handleSearch from the settling of fetchStructuredJobData on; ran names the
\* stages fetchStructuredJobData ran after its loop.
Land(res, ran) ==
    LET l == IF app = "direct" THEN ListingDirect(res) ELSE ListingServerless(res)
        wanted == IF app = "direct" THEN TRUE ELSE InsightsWanted(MapJobs(l.jobResults))
        st == InsightsStage(wanted, l.isFallback)
    IN  /\ thrown' = IF res.threw THEN res.msg ELSE NoError
        /\ returned' = IF res.threw THEN NoValue ELSE res.val
        /\ iLastOutcome' = NoOutcome
        /\ stages' = stages \o ran \o
                        (IF ~MapThrows(l.jobResults) /\ wanted
                         THEN <<"insights">> ELSE <<>>)
        /\ searchError' = l.searchError
        /\ cause' = l.cause
        /\ isFallbackMode' = l.isFallback
        /\ iAttempt' = 0
        /\ iWaits' = <<>>
        /\ IF MapThrows(l.jobResults)
           THEN \* the TypeError leaves handleSearch: nothing after the map runs
                /\ pc' = "crashed"
                /\ inFlight' = {}
                /\ UNCHANGED <<jobs, aiInsights, isSearching, searchProgress,
                               insightFetches, feedback>>
           ELSE /\ jobs' = MapJobs(l.jobResults)
                \* setFeedback({}), right after setJobs(finalJobs)
                /\ feedback' = NoFeedback
                /\ pc' = st.pc
                /\ aiInsights' = st.aiInsights
                /\ isSearching' = st.isSearching
                /\ searchProgress' = st.searchProgress
                /\ insightFetches' = st.insightFetches
                /\ inFlight' = st.inFlight

----------------------------------------------------------------------------
(* The Search button and the invocations of handleSearch *)

\* <button onClick={handleSearch} disabled={isSearching}>
SearchButtonAlwaysEnabled(searching) == TRUE
SearchButtonEnabled(searching) == ~searching

EndPcs == {"idle", "crashed"}

\* The continuation of invocation id has run: it wrote the React state when
\* wrote holds, and it is outstanding no more once handleSearch is left.
Continued(id, wrote) ==
    /\ writer' = IF wrote THEN id ELSE writer
    /\ invocation' = invocation
    /\ outstanding' = IF pc' \in EndPcs THEN outstanding \ {id} ELSE outstanding

----------------------------------------------------------------------------
(* Request details on the console, and the two API tests of the direct      *)
(* client.  The model follows the build in which VITE_GEMINI_API_KEY is set. *)

API_KEY == "value of VITE_GEMINI_API_KEY"
API_ENDPOINT == "https://generativelanguage.googleapis.com/v1beta/models/MODEL:generateContent"

ContentTypeHeader == <<"Content-Type", "application/json">>
\* headers['x-goog-api-key'] = API_KEY
HeadersWithKey == <<ContentTypeHeader, <<"x-goog-api-key", API_KEY>>>>

\* delete headersForLogging[name]
DeleteHeader(headers, name) ==
    LET keep(h) == h[1] # name IN SelectSeq(headers, keep)

RECURSIVE HeaderText(_)
HeaderText(headers) ==
    IF headers = <<>> THEN <<>> ELSE Head(headers) \o HeaderText(Tail(headers))

\* the console.log calls of fetchStructuredJobData before its loop
SearchRequestLog ==
    { <<"Gemini API Request Details (Job Search)">>,
      <<"Request URL:", API_ENDPOINT>>,
      <<"Headers:">> \o HeaderText(DeleteHeader(HeadersWithKey, "x-goog-api-key")),
      <<"Payload:", "payload">> }

\* the template API_ENDPOINT ?key= API_KEY
UrlWithKey == <<API_ENDPOINT, "?key=", API_KEY>>

\* the console.log calls of runSimpleApiTest and of runGoldApiTest
ApiTestLog(group) ==
    { <<group>>,
      <<"Request URL:">> \o UrlWithKey,
      <<"Headers:">> \o HeaderText(<<ContentTypeHeader>>),
      <<"Payload:", "payload">> }

\* The request a client issues for a call of fetchStructuredJobData
\* ("search") or of fetchAIInsights ("insights"): the direct client posts to
\* the generation endpoint with the key in a header, the serverless client
\* posts to the application's own endpoints.
ClientRequest(client, call) ==
    IF client = "direct"
    THEN [url |-> <<API_ENDPOINT>>, headers |-> HeadersWithKey,
          body |-> <<"payload">>]
    ELSE [url |-> <<"/api/" \o call>>, headers |-> <<ContentTypeHeader>>,
          body |-> IF call = "search" THEN <<"combinedPrompt">>
                   ELSE <<"searchParams", "jobResultsCount">>]

TestOutcomes ==
    {[kind |-> "http", status |-> 401], [kind |-> "reject"], [kind |-> "ok"]}

\* the template "HTTP error! status: " status " " statusText
MsgTestHttp(status) == <<"HTTP error! status: ", ToString(status), " ", "statusText">>

----------------------------------------------------------------------------
(* Actions *)

AppInit ==
    /\ app \in {"direct", "serverless"}
    /\ useFallbackForTesting = FALSE
    /\ jobs = <<>>
    /\ aiInsights = Unset
    /\ searchError = NoError
    /\ isSearching = FALSE
    /\ searchProgress = ""
    /\ isFallbackMode = FALSE
    /\ pc = "idle"
    /\ attempt = 0
    /\ searchFetches = 0
    /\ waits = <<>>
    /\ lastOutcome = NoOutcome
    /\ thrown = NoError
    /\ succeededAt = -1
    /\ cause = "none"
    /\ iAttempt = 0
    /\ insightFetches = 0
    /\ iWaits = <<>>
    /\ inFlight = {}
    /\ returned = NoValue
    /\ stages = <<>>
    /\ iLastOutcome = NoOutcome
    /\ clicked = NoClick
    /\ invocation = 0
    /\ writer = 0
    /\ outstanding = {}
    /\ log = {}
    /\ testPc = "off"
    /\ testThrown = NoError
    /\ feedback = NoFeedback

ExtractIdle ==
    /\ text = <<>>
    /\ extracted = <<>>
    /\ xpc = "off"

HandlerIdle ==
    /\ hreq = NoRequest
    /\ hpc = "off"
    /\ hsent = <<>>
    /\ hReadKey = FALSE
    /\ hCalledModel = FALSE

Init == AppInit /\ ExtractIdle /\ HandlerIdle

\* The "Force Fallback Data" checkbox of the serverless client.
ToggleFallback ==
    /\ app = "serverless"
    /\ useFallbackForTesting' = ~useFallbackForTesting
    /\ UNCHANGED <<app, jobs, aiInsights, searchError, isSearching,
                   searchProgress, isFallbackMode, pc, attempt, searchFetches,
                   waits, lastOutcome, thrown, succeededAt, cause, iAttempt,
                   insightFetches, iWaits, inFlight, clicked>>
    /\ UNCHANGED <<traceVars, invocationVars, testVars, extractVars, handlerVars>>
    /\ UNCHANGED feedback

\* A new invocation of handleSearch starts: setJobs([]) removes the rows of
\* the earlier listings, and their View Job links with them.
Invoked ==
    /\ invocation < MaxInvocations
    /\ invocation' = invocation + 1
    /\ writer' = invocation + 1
    /\ returned' = NoValue
    /\ iLastOutcome' = NoOutcome
    /\ clicked' = NoClick

\* The Search button (disabled while isSearching) with the switch off: the
\* state is reset, the request details are logged (direct client) and the
\* first fetch of the search stage is issued.
StartSearch ==
    /\ SearchButtonEnabled(isSearching)
    /\ ~useFallbackForTesting
    /\ Invoked
    /\ outstanding' = outstanding \cup {invocation + 1}
    /\ stages' = <<"prompt", "search">>
    /\ log' = IF app = "direct" THEN log \cup SearchRequestLog ELSE log
    /\ UNCHANGED <<testPc, testThrown>>
    /\ isSearching' = TRUE
    /\ jobs' = <<>>
    /\ searchError' = NoError
    /\ aiInsights' = Unset
    /\ isFallbackMode' = FALSE
    /\ searchProgress' = "2/3"
    /\ attempt' = 0
    /\ searchFetches' = 1
    /\ waits' = <<>>
    /\ lastOutcome' = NoOutcome
    /\ thrown' = NoError
    /\ succeededAt' = -1
    /\ cause' = "none"
    /\ iAttempt' = 0
    /\ insightFetches' = 0
    /\ iWaits' = <<>>
    /\ inFlight' = {"search"}
    /\ pc' = "search_fetch"
    /\ UNCHANGED <<app, useFallbackForTesting>>
    /\ UNCHANGED <<extractVars, handlerVars>>
    /\ UNCHANGED feedback

\* The Search button with the switch on (serverless client): the whole
\* invocation runs without suspending on the network.
StartForcedFallback ==
    /\ SearchButtonEnabled(isSearching)
    /\ app = "serverless"
    /\ useFallbackForTesting
    /\ Invoked
    /\ stages' = <<"insights">>
    /\ UNCHANGED testVars
    /\ LET st == InsightsStage(TRUE, TRUE)
       IN  /\ pc' = st.pc
           /\ aiInsights' = IF st.pc = "idle" THEN st.aiInsights ELSE Unset
           /\ isSearching' = st.isSearching
           /\ searchProgress' = IF st.pc = "idle" THEN "" ELSE "1/1"
           /\ insightFetches' = st.insightFetches
           /\ inFlight' = st.inFlight
    /\ jobs' = MapJobs(RICH_FALLBACK_JOBS)
    /\ searchError' = DiagForced
    /\ isFallbackMode' = TRUE
    /\ attempt' = 0
    /\ searchFetches' = 0
    /\ waits' = <<>>
    /\ lastOutcome' = NoOutcome
    /\ thrown' = NoError
    /\ succeededAt' = -1
    /\ cause' = "forced"
    /\ iAttempt' = 0
    /\ iWaits' = <<>>
    /\ outstanding' = IF pc' \in EndPcs THEN outstanding
                                       ELSE outstanding \cup {invocation + 1}
    /\ UNCHANGED <<app, useFallbackForTesting>>
    /\ UNCHANGED <<extractVars, handlerVars>>
    /\ UNCHANGED feedback

\* A fetch of the direct client's search stage settles.
SearchSettlesDirect ==
    /\ app = "direct"
    /\ pc = "search_fetch"
    /\ \E id \in outstanding, o \in DirectOutcomes :
          LET a == DirectAttempt(o)
          IN  /\ lastOutcome' = o
              /\ IF ~a.ok /\ RetryDecision(a.msg, attempt) = "wait"
                 THEN /\ waits' = Append(waits, BackoffDelay(attempt))
                      /\ pc' = "search_backoff"
                      /\ inFlight' = {}
                      /\ UNCHANGED <<jobs, aiInsights, searchError, isSearching,
                                     searchProgress, isFallbackMode, thrown,
                                     succeededAt, cause, iAttempt,
                                     insightFetches, iWaits, feedback>>
                      /\ UNCHANGED traceVars
                      /\ Continued(id, FALSE)
                 ELSE /\ succeededAt' = IF a.ok THEN attempt ELSE succeededAt
                      /\ IF a.ok
                         THEN Land(FetchTail(a.result), TailStages(a.result))
                         ELSE Land(Threw(a.msg), <<>>)
                      /\ UNCHANGED waits
                      /\ Continued(id, TRUE)
    /\ UNCHANGED <<app, useFallbackForTesting, attempt, searchFetches, clicked>>
    /\ UNCHANGED <<testVars, extractVars, handlerVars>>

\* The backoff timer fires: the loop goes round and issues the next fetch.
BackoffElapses ==
    /\ app = "direct"
    /\ pc = "search_backoff"
    /\ outstanding # {}
    /\ attempt' = attempt + 1
    /\ searchFetches' = searchFetches + 1
    /\ inFlight' = {"search"}
    /\ pc' = "search_fetch"
    /\ UNCHANGED <<app, useFallbackForTesting, jobs, aiInsights, searchError,
                   isSearching, searchProgress, isFallbackMode, waits,
                   lastOutcome, thrown, succeededAt, cause, iAttempt,
                   insightFetches, iWaits, clicked>>
    /\ UNCHANGED <<traceVars, invocationVars, testVars, extractVars, handlerVars>>
    /\ UNCHANGED feedback

\* The fetch('/api/search') of the serverless client settles.
SearchSettlesServerless ==
    /\ app = "serverless"
    /\ pc = "search_fetch"
    /\ \E id \in outstanding, o \in BackendOutcomes :
          /\ lastOutcome' = o
          /\ succeededAt' = IF BackendFetch(o).threw THEN succeededAt ELSE attempt
          /\ Land(BackendFetch(o), <<>>)
          /\ Continued(id, TRUE)
    /\ UNCHANGED <<app, useFallbackForTesting, attempt, searchFetches, waits,
                   clicked>>
    /\ UNCHANGED <<testVars, extractVars, handlerVars>>

----------------------------------------------------------------------------
(* fetchAIInsights and generateAIInsights *)

InsightBodies == {"text", "notext"}

\* How one fetch() of the direct client's insights stage can settle.
InsightOutcomes ==
    {[kind |-> "http", status |-> st] : st \in HttpFailures}
    \cup {[kind |-> "reject"]}
    \cup {[kind |-> "ok", body |-> b] : b \in InsightBodies}

InsightAttempt(o) ==
    CASE o.kind = "http" -> [ok |-> FALSE, msg |-> MsgHttp(o.status)]
      [] o.kind = "reject" -> [ok |-> FALSE, msg |-> MsgReject]
      [] o.kind = "ok" -> [ok |-> TRUE, result |-> o.body]

\* The catch block of the insights loop: it has no test for 401.
InsightRetryDecision(msg, att) ==
    IF att = maxRetries - 1 THEN "fail" ELSE "wait"

\* generateAIInsights of the direct client, once fetchAIInsights has settled
InsightsShownDirectRethrown(a) ==
    IF ~a.ok THEN a.msg
    ELSE IF a.result = "text" THEN LiveInsights
    ELSE NoInsightsGenerated
InsightsShownDirect(a) ==
    IF ~a.ok THEN InsightsFailedDirect
    ELSE IF a.result = "text" THEN LiveInsights
    ELSE NoInsightsGenerated

\* A fetch of the direct client's insights stage settles.
InsightsSettlesDirect ==
    /\ app = "direct"
    /\ pc = "insights_fetch"
    /\ \E id \in outstanding, o \in InsightOutcomes :
          LET a == InsightAttempt(o)
          IN  /\ iLastOutcome' = o
              /\ IF ~a.ok /\ InsightRetryDecision(a.msg, iAttempt) = "wait"
                 THEN /\ iWaits' = Append(iWaits, BackoffDelay(iAttempt))
                      /\ pc' = "insights_backoff"
                      /\ UNCHANGED <<aiInsights, isSearching, searchProgress>>
                      /\ Continued(id, FALSE)
                 ELSE /\ aiInsights' = InsightsShownDirect(a)
                      /\ pc' = "idle"
                      /\ isSearching' = FALSE
                      /\ searchProgress' = ""
                      /\ UNCHANGED iWaits
                      /\ Continued(id, TRUE)
    /\ inFlight' = {}
    /\ UNCHANGED <<app, useFallbackForTesting, jobs, searchError,
                   isFallbackMode, attempt, searchFetches, waits, lastOutcome,
                   thrown, succeededAt, cause, iAttempt, insightFetches,
                   returned, stages, clicked>>
    /\ UNCHANGED <<testVars, extractVars, handlerVars>>
    /\ UNCHANGED feedback

InsightsBackoffElapses ==
    /\ app = "direct"
    /\ pc = "insights_backoff"
    /\ outstanding # {}
    /\ iAttempt' = iAttempt + 1
    /\ insightFetches' = insightFetches + 1
    /\ inFlight' = {"insights"}
    /\ pc' = "insights_fetch"
    /\ UNCHANGED <<app, useFallbackForTesting, jobs, aiInsights, searchError,
                   isSearching, searchProgress, isFallbackMode, attempt,
                   searchFetches, waits, lastOutcome, thrown, succeededAt,
                   cause, iWaits, clicked>>
    /\ UNCHANGED <<traceVars, invocationVars, testVars, extractVars, handlerVars>>
    /\ UNCHANGED feedback

\* How the fetch('/api/insights') of the serverless client can settle.
BackendInsightOutcomes ==
    {[kind |-> "reject"], [kind |-> "badjson", pos |-> "7"]}
    \cup {[kind |-> "response", keySet |-> k, gen |-> g,
           response |-> insightsHandler("POST", k, TRUE, g)] :
             k \in BOOLEAN, g \in GenOutcomes}

BackendInsights(o) ==
    CASE o.kind = "reject" -> Threw(MsgReject)
      [] o.kind = "badjson" -> Threw(MsgBadJson(o.pos))
      [] o.kind = "response" ->
            IF ~ResponseOk(o.response) THEN Threw(o.response.error)
            ELSE \* data.insights: the parsed answer, shown as the live insights
                 Returned(LiveInsights)

\* The fetch('/api/insights') of the serverless client settles.
InsightsSettlesServerless ==
    /\ app = "serverless"
    /\ pc = "insights_fetch"
    /\ pc' = "idle"
    /\ \E id \in outstanding, o \in BackendInsightOutcomes :
          /\ iLastOutcome' = o
          /\ aiInsights' = IF BackendInsights(o).threw
                           THEN InsightsFailed(BackendInsights(o).msg)
                           ELSE BackendInsights(o).val
          /\ Continued(id, TRUE)
    /\ isSearching' = FALSE
    /\ searchProgress' = ""
    /\ inFlight' = {}
    /\ UNCHANGED <<app, useFallbackForTesting, jobs, searchError,
                   isFallbackMode, attempt, searchFetches, waits, lastOutcome,
                   thrown, succeededAt, cause, iAttempt, insightFetches, iWaits,
                   returned, stages, clicked>>
    /\ UNCHANGED <<testVars, extractVars, handlerVars>>
    /\ UNCHANGED feedback

\* A click on the View Job link of a listing that is shown.
ClickViewJob ==
    /\ \E i \in 1..Len(jobs) : clicked' = ViewJobClick(jobs[i])
    /\ UNCHANGED <<app, useFallbackForTesting, jobs, aiInsights, searchError,
                   isSearching, searchProgress, isFallbackMode, pc, attempt,
                   searchFetches, waits, lastOutcome, thrown, succeededAt, cause,
                   iAttempt, insightFetches, iWaits, inFlight>>
    /\ UNCHANGED <<traceVars, invocationVars, testVars, extractVars, handlerVars>>
    /\ UNCHANGED feedback

\* A click on the thumbs-up or thumbs-down button of a listing that is shown:
\* onClick={() => handleFeedback(job, type)}.
HandleFeedback ==
    /\ \E i \in 1..Len(jobs), type \in FeedbackTypes :
          feedback' = handleFeedback(feedback, jobs[i].id.s, type)
    /\ UNCHANGED <<app, useFallbackForTesting, jobs, aiInsights, searchError,
                   isSearching, searchProgress, isFallbackMode, pc, attempt,
                   searchFetches, waits, lastOutcome, thrown, succeededAt, cause,
                   iAttempt, insightFetches, iWaits, inFlight, clicked>>
    /\ UNCHANGED <<traceVars, invocationVars, testVars, extractVars, handlerVars>>

\* runSimpleApiTest, up to its fetch.
RunSimpleApiTest ==
    /\ app = "direct"
    /\ testPc = "off"
    /\ log' = log \cup ApiTestLog("Gemini API Request Details (Simple Test)")
    /\ testPc' = "simple_fetch"
    /\ testThrown' = NoError
    /\ UNCHANGED <<app, useFallbackForTesting, jobs, aiInsights, searchError,
                   isSearching, searchProgress, isFallbackMode, pc, attempt,
                   searchFetches, waits, lastOutcome, thrown, succeededAt, cause,
                   iAttempt, insightFetches, iWaits, inFlight, clicked>>
    /\ UNCHANGED <<traceVars, invocationVars, extractVars, handlerVars>>
    /\ UNCHANGED feedback

\* runGoldApiTest, up to its fetch.
RunGoldApiTest ==
    /\ app = "direct"
    /\ testPc = "off"
    /\ log' = log \cup ApiTestLog("Gemini API Request Details (Gold Price Test)")
    /\ testPc' = "gold_fetch"
    /\ testThrown' = NoError
    /\ UNCHANGED <<app, useFallbackForTesting, jobs, aiInsights, searchError,
                   isSearching, searchProgress, isFallbackMode, pc, attempt,
                   searchFetches, waits, lastOutcome, thrown, succeededAt, cause,
                   iAttempt, insightFetches, iWaits, inFlight, clicked>>
    /\ UNCHANGED <<traceVars, invocationVars, extractVars, handlerVars>>
    /\ UNCHANGED feedback

\* The fetch of an API test settles.
ApiTestSettles ==
    /\ testPc \in {"simple_fetch", "gold_fetch"}
    /\ \E o \in TestOutcomes :
          /\ testThrown' = CASE o.kind = "http" -> MsgTestHttp(o.status)
                              [] o.kind = "reject" -> MsgReject
                              [] o.kind = "ok" -> NoError
          /\ log' = IF testPc = "gold_fetch" /\ o.kind = "http"
                    THEN log \cup {<<"Gold API Test Error Body:", "errorBody">>}
                    ELSE IF testPc = "gold_fetch" /\ o.kind = "ok"
                    THEN log \cup {<<"Gold API Test Success Response:", "result">>}
                    ELSE log
    /\ testPc' = "off"
    /\ UNCHANGED <<app, useFallbackForTesting, jobs, aiInsights, searchError,
                   isSearching, searchProgress, isFallbackMode, pc, attempt,
                   searchFetches, waits, lastOutcome, thrown, succeededAt, cause,
                   iAttempt, insightFetches, iWaits, inFlight, clicked>>
    /\ UNCHANGED <<traceVars, invocationVars, extractVars, handlerVars>>

    /\ UNCHANGED feedback
Next ==
    \/ ToggleFallback
    \/ StartSearch
    \/ StartForcedFallback
    \/ SearchSettlesDirect
    \/ BackoffElapses
    \/ SearchSettlesServerless
    \/ InsightsSettlesDirect
    \/ InsightsBackoffElapses
    \/ InsightsSettlesServerless
    \/ ClickViewJob
    \/ RunSimpleApiTest
    \/ RunGoldApiTest
    \/ ApiTestSettles

Spec == Init /\ [][Next]_vars

\* The searches together with the feedback buttons; the View Job links and
\* the API tests, which neither read nor write the feedback map, are left out.
FeedbackNext ==
    \/ ToggleFallback
    \/ StartSearch
    \/ StartForcedFallback
    \/ SearchSettlesDirect
    \/ BackoffElapses
    \/ SearchSettlesServerless
    \/ InsightsSettlesDirect
    \/ InsightsBackoffElapses
    \/ InsightsSettlesServerless
    \/ HandleFeedback

FeedbackSpec == Init /\ [][FeedbackNext]_vars

----------------------------------------------------------------------------
(* The extractor on its own: every raw text of at most MaxLen tokens *)

ExtractAlphabet == {Fence, JsonTag, " ", "[", "]", "x"}

RawTexts == UNION {[1..n -> ExtractAlphabet] : n \in 0..MaxLen}

AppQuiet ==
    /\ AppInit
    /\ app = "direct"

ExtractInit ==
    /\ AppQuiet
    /\ text \in RawTexts
    /\ extracted = <<>>
    /\ xpc = "input"
    /\ HandlerIdle

Extract ==
    /\ xpc = "input"
    /\ extracted' = extractJsonFromText(text)
    /\ xpc' = "done"
    /\ UNCHANGED text
    /\ UNCHANGED <<appVars, handlerVars>>

ExtractNext == Extract

ExtractSpec == ExtractInit /\ [][ExtractNext]_vars

----------------------------------------------------------------------------
(* The two serverless handlers on their own: every request, statement by   *)
(* statement up to the responses they send                                  *)

HandlerNames == {"search", "insights"}
HandlerMethods == {"GET", "POST", "PUT"}

\* req.body: absent, without the field the handler reads, or with it
HandlerBodies == {"undefined", "empty", "filled"}

\* The texts the model can answer: those of the clients' checks, a fenced
\* block without the json tag, and a tagged block written on one line.
HandlerTexts ==
    SampleTexts
    \cup { <<Fence, "\n", "[", "A", "]", "\n", Fence>>,
            <<Fence, JsonTag, " ", "[", "A", "]", " ", Fence>>,
            <<"x", " ", Fence, JsonTag, "\n", "[", "D", "]", "\n", Fence, " ", "x">> }

HandlerGenOutcomes ==
    {[ok |-> FALSE]} \cup {[ok |-> TRUE, text |-> t] : t \in HandlerTexts}

HandlerRequests ==
    [handler : HandlerNames, method : HandlerMethods, keySet : BOOLEAN,
     body : HandlerBodies, gen : HandlerGenOutcomes]

\* if (req.method !== 'POST') return res.status(405)...
MethodAllowedAlways(method) == TRUE
MethodAllowed(method) == method = "POST"

\* const { combinedPrompt } = req.body, with req.body undefined
MsgDestructure == <<"Cannot destructure property of 'req.body' as it is undefined.">>

MsgNoField(handler) ==
    IF handler = "search" THEN <<"No prompt provided.">>
    ELSE <<"No search parameters provided.">>

MsgNoBlock(handler) ==
    IF handler = "search" THEN MsgNotJsonBlock ELSE MsgInsightsNotJsonBlock

MsgNotJson(handler) ==
    IF handler = "search" THEN MsgJobsNotJson ELSE MsgInsightsNotJson

\* res.status(200).json(jobs) and res.status(200).json({ insights: insightsJson })
Answer200(handler, val) ==
    IF handler = "search" THEN [status |-> 200, data |-> val]
    ELSE [status |-> 200, data |-> [insights |-> val]]

\* What a run of statements gave: the responses it sent, whether it read the
\* key, whether it threw (and what), whether it called the model.
Ran(sent, readKey, threw, msg, calls) ==
    [sent |-> sent, readKey |-> readKey, threw |-> threw, msg |-> msg,
     calls |-> calls]

\* The handler from its first statement to the call of generateContent.
HandlerReceive(req) ==
    IF ~MethodAllowed(req.method)
    THEN Ran(<<[status |-> 405, error |-> <<"Method Not Allowed">>]>>,
             FALSE, FALSE, NoError, FALSE)
    ELSE IF ~req.keySet THEN Ran(<<>>, TRUE, TRUE, MsgKeyMissing, FALSE)
    ELSE IF req.body = "undefined" THEN Ran(<<>>, TRUE, TRUE, MsgDestructure, FALSE)
    ELSE IF req.body = "empty"
         THEN Ran(<<[status |-> 400, error |-> MsgNoField(req.handler)]>>,
                  TRUE, FALSE, NoError, FALSE)
    ELSE Ran(<<>>, TRUE, FALSE, NoError, TRUE)

\* The inner try/catch: JSON.parse, then the 200; its catch sends the 500
\* and does not throw again.
ParseAndRespondRethrows(handler, jsonString) ==
    LET parsed == JSONparse(jsonString)
    IN  IF parsed.ok
        THEN Ran(<<Answer200(handler, parsed.val)>>, TRUE, FALSE, NoError, TRUE)
        ELSE Ran(<<[status |-> 500, error |-> MsgNotJson(handler)]>>,
                 TRUE, TRUE, MsgNotJson(handler), TRUE)
ParseAndRespond(handler, jsonString) ==
    LET parsed == JSONparse(jsonString)
    IN  IF parsed.ok
        THEN Ran(<<Answer200(handler, parsed.val)>>, TRUE, FALSE, NoError, TRUE)
        ELSE Ran(<<[status |-> 500, error |-> MsgNotJson(handler)]>>,
                 TRUE, FALSE, NoError, TRUE)

\* The handler from the settling of generateContent on.
HandlerSettle(handler, gen) ==
    IF ~gen.ok THEN Ran(<<>>, TRUE, TRUE, MsgModelFailed, TRUE)
    ELSE LET match == handlerMatch(gen.text)
         IN  IF ~match.found \/ match.cap = <<>>
             THEN Ran(<<>>, TRUE, TRUE, MsgNoBlock(handler), TRUE)
             ELSE ParseAndRespond(handler, match.cap)

\* The outer catch: res.status(500).json({ error: errorMessage })
HandlerCatch(ran) ==
    IF ran.threw THEN Append(ran.sent, [status |-> 500, error |-> ran.msg])
    ELSE ran.sent

HandlerInit ==
    /\ AppQuiet
    /\ ExtractIdle
    /\ hreq \in HandlerRequests
    /\ hpc = "received"
    /\ hsent = <<>>
    /\ hReadKey = FALSE
    /\ hCalledModel = FALSE

\* The handler runs up to its await of generateContent, or to its end.
HandlerReceives ==
    /\ hpc = "received"
    /\ LET ran == HandlerReceive(hreq)
       IN  /\ hReadKey' = ran.readKey
           /\ hCalledModel' = ran.calls
           /\ hsent' = hsent \o HandlerCatch(ran)
           /\ hpc' = IF ran.calls THEN "generating" ELSE "done"
    /\ UNCHANGED hreq
    /\ UNCHANGED <<appVars, extractVars>>

\* generateContent settles and the handler runs to its end.
HandlerModelSettles ==
    /\ hpc = "generating"
    /\ hsent' = hsent \o HandlerCatch(HandlerSettle(hreq.handler, hreq.gen))
    /\ hpc' = "done"
    /\ UNCHANGED <<hreq, hReadKey, hCalledModel>>
    /\ UNCHANGED <<appVars, extractVars>>

HandlerNext == HandlerReceives \/ HandlerModelSettles

HandlerSpec == HandlerInit /\ [][HandlerNext]_vars

----------------------------------------------------------------------------
(* Claims about the retry loop of fetchStructuredJobData                   *)

Is401(o) == o.kind = "http" /\ o.status = 401

\* The search stage of the running invocation is over.
SearchLoopEnded == searchFetches > 0 /\ pc \notin {"search_fetch", "search_backoff"}

\* C1: whatever non-401 outcomes the attempts have, the loop makes min(n, 5)
\* fetches, n being the first attempt that succeeds (5 when none does).
C1_AttemptsAreMinOfNAnd5 ==
    (app = "direct" /\ SearchLoopEnded /\ ~Is401(lastOutcome))
        => searchFetches = (IF succeededAt >= 0 THEN succeededAt + 1 ELSE maxRetries)

\* C2 as stated: the delay waited before attempt k (k >= 1) is 2^k seconds.
C2_DelayBeforeAttemptKIsTwoToTheK ==
    \A k \in 1..Len(waits) : waits[k] = (2 ^ k) * 1000

\* C2, amended: the delay waited before attempt k (k >= 1) is 2^(k-1) seconds
\* (2^j seconds after the failure of attempt j); nothing is waited before
\* attempt 0 nor after the failure of the last attempt.  The insights loop
\* waits the same way.
C2_DelayBeforeAttemptKIsTwoToTheKMinus1 ==
    /\ \A k \in 1..Len(waits) : waits[k] = (2 ^ (k - 1)) * 1000
    /\ \A k \in 1..Len(iWaits) : iWaits[k] = (2 ^ (k - 1)) * 1000
    /\ Len(waits) = (IF pc = "search_backoff" THEN attempt + 1 ELSE attempt)
    /\ Len(iWaits) = (IF pc = "insights_backoff" THEN iAttempt + 1 ELSE iAttempt)
    /\ Len(waits) <= maxRetries - 1
    /\ Len(iWaits) <= maxRetries - 1

C2_Witness ==
    /\ app = "direct"
    /\ waits = <<1000, 2000, 4000, 8000>>
    /\ searchFetches = maxRetries
    /\ thrown = MsgHttp(500)

\* C3: an HTTP 401 of any attempt ends the search stage at once: the 401 error
\* is propagated, no fetch and no wait follow it, and handleSearch shows the
\* fallback dataset with the authentication-failed diagnostic.
C3_Http401IsNotRetried ==
    (app = "direct" /\ Is401(lastOutcome))
        => /\ thrown = MsgHttp(401)
           /\ searchFetches = attempt + 1
           /\ Len(waits) = attempt
           /\ inFlight = {}
           /\ pc = "idle"
           /\ jobs = FallbackListings
           /\ searchError = DiagAuthFailed
           /\ isFallbackMode

C3_Witness ==
    /\ app = "direct"
    /\ Is401(lastOutcome)
    /\ searchFetches = 1
    /\ waits = <<>>
    /\ jobs = FallbackListings
    /\ searchError = DiagAuthFailed

RetryableFailure(o) == (o.kind = "http" /\ o.status # 401) \/ o.kind = "reject"

\* C4: a non-success status other than 401, or a rejected fetch, on attempts
\* 0..3 leads to the backoff and then to one more fetch; on attempt 4 the error
\* of that very attempt is what fetchStructuredJobData throws.
C4_FailuresAreRetriedAndLastErrorPropagates ==
    [][ /\ (app = "direct" /\ pc = "search_fetch" /\ pc' # "search_fetch"
               /\ RetryableFailure(lastOutcome'))
            => IF attempt <= maxRetries - 2
               THEN pc' = "search_backoff" /\ thrown' = NoError
               ELSE /\ thrown' = DirectAttempt(lastOutcome').msg
                    /\ searchFetches' = maxRetries
                    /\ pc' = "idle"
        /\ (pc = "search_backoff" /\ pc' # "search_backoff")
            => /\ pc' = "search_fetch"
               /\ attempt' = attempt + 1
               /\ searchFetches' = searchFetches + 1 ]_vars

C4_Witness ==
    /\ app = "direct"
    /\ searchFetches = maxRetries
    /\ attempt = maxRetries - 1
    /\ lastOutcome = [kind |-> "reject"]
    /\ thrown = MsgReject
    /\ pc = "idle"

----------------------------------------------------------------------------
(* Claims about the fallback policy of handleSearch                        *)

\* C5: a handleSearch that completed after a failure, or after an empty or
\* non-array result, shows the hardcoded fallback dataset.
C5_FailureShowsFallbackDataset ==
    (pc = "idle" /\ cause \in {"auth", "error", "config", "noresults"})
        => jobs = FallbackListings /\ jobs # <<>>

\* C6: with the force-fallback switch on, handleSearch issues no fetch at all
\* and ends with the fallback dataset in jobs.
C6_ForcedFallbackMakesNoNetworkCall ==
    cause = "forced"
        => /\ searchFetches = 0
           /\ insightFetches = 0
           /\ inFlight = {}
           /\ pc = "idle"
           /\ ~isSearching
           /\ jobs = FallbackListings
           /\ isFallbackMode

C6_Witness ==
    /\ app = "serverless"
    /\ useFallbackForTesting
    /\ cause = "forced"
    /\ jobs = FallbackListings
    /\ searchFetches = 0
    /\ insightFetches = 0

\* C7: in the serverless client a job-listing stage that yields no record
\* issues no insights request and leaves aiInsights unset; the forced-fallback
\* mode sets the canned insights without any fetch.
C7_InsightsSkippedOnZeroRecords ==
    app = "serverless"
        => /\ cause \in {"noresults", "error", "config"}
               => /\ insightFetches = 0
                  /\ "insights" \notin inFlight
                  /\ aiInsights = Unset
                  /\ jobs = <<>>
           /\ cause = "forced"
               => /\ insightFetches = 0
                  /\ searchFetches = 0
                  /\ aiInsights = CannedInsights

C7_Witness ==
    /\ app = "serverless"
    /\ cause = "noresults"
    /\ pc = "idle"
    /\ jobs = <<>>
    /\ insightFetches = 0
    /\ aiInsights = Unset

----------------------------------------------------------------------------
(* Claims about extractJsonFromText                                        *)

\* r is s without its leading and trailing whitespace
IsTrimOf(r, s) ==
    /\ (r # <<>> => ~IsWs(r[1]) /\ ~IsWs(r[Len(r)]))
    /\ \E a \in 0..Len(s) :
          /\ a + Len(r) <= Len(s)
          /\ SubSeq(s, a + 1, a + Len(r)) = r
          /\ \A k \in (1..a) \cup ((a + Len(r) + 1)..Len(s)) : IsWs(s[k])

\* <<i, j>> is the first fenced block of s: the first marker and the next one
IsFirstFencedBlock(s, i, j) ==
    /\ i < j
    /\ s[i] = Fence
    /\ s[j] = Fence
    /\ \A k \in 1..(j - 1) : k # i => s[k] # Fence

\* what stands between the opening marker, with its json tag, and the closing one
Interior(s, i, j) ==
    IF j > i + 1 /\ s[i + 1] = JsonTag THEN SubSeq(s, i + 2, j - 1)
    ELSE SubSeq(s, i + 1, j - 1)

HasFencedBlock(s) == \E i, j \in 1..Len(s) : IsFirstFencedBlock(s, i, j)

\* C8: of a text that holds a fenced block, the extractor returns the trimmed
\* interior of the first block, whatever stands before and after it.
C8_FencedBlockInteriorIsReturned ==
    xpc = "done"
        => \A i, j \in 1..Len(text) :
              IsFirstFencedBlock(text, i, j)
                  => IsTrimOf(extracted, Interior(text, i, j))

C8_Witness ==
    /\ xpc = "done"
    /\ text = <<"[", Fence, JsonTag, "x", Fence>>
    /\ extracted = <<"x">>

\* s[i..j] is a balanced array: its '[' at i is closed by the ']' at j
IsBalancedArray(s, i, j) ==
    LET depth(k) == Cardinality({m \in i..k : s[m] = "["})
                    - Cardinality({m \in i..k : s[m] = "]"})
    IN  /\ i < j
        /\ s[i] = "["
        /\ s[j] = "]"
        /\ depth(j) = 0
        /\ \A k \in i..(j - 1) : depth(k) >= 1

\* a balanced array that lies in no other balanced array of s
IsTopLevelArray(s, i, j) ==
    /\ IsBalancedArray(s, i, j)
    /\ ~\E a, b \in 1..Len(s) : a < i /\ j < b /\ IsBalancedArray(s, a, b)

\* C9 as stated: of a text without fenced block that holds a balanced top-level
\* array, the extractor returns that array, brackets in the prose or not.
C9_TopLevelArrayIsReturned ==
    (xpc = "done" /\ ~HasFencedBlock(text))
        => \A i, j \in 1..Len(text) :
              (/\ IsTopLevelArray(text, i, j)
               /\ \A a, b \in 1..Len(text) :
                     IsTopLevelArray(text, a, b) => a = i /\ b = j)
                  => extracted = SubSeq(text, i, j)

\* C9, amended: of a text without fenced block the extractor returns the
\* stretch from the first '[' to the last ']'; that is the balanced top-level
\* array when no '[' stands before the array and no ']' after it.
C9_FirstOpenToLastCloseIsReturned ==
    (xpc = "done" /\ ~HasFencedBlock(text))
        => \A i, j \in 1..Len(text) :
              (/\ i < j
               /\ text[i] = "["
               /\ text[j] = "]"
               /\ \A k \in 1..(i - 1) : text[k] # "["
               /\ \A k \in (j + 1)..Len(text) : text[k] # "]")
                  => extracted = SubSeq(text, i, j)

C9_Witness ==
    /\ xpc = "done"
    /\ text = <<"x", "[", "x", "]", "x">>
    /\ extracted = <<"[", "x", "]">>

HasBracketPair(s) == \E i, j \in 1..Len(s) : i < j /\ s[i] = "[" /\ s[j] = "]"

\* C10: the extractor returns a text for every raw text, and the whole input
\* trimmed when the input has neither a fenced block nor a '[' ... ']' pair.
C10_ExtractorIsTotal ==
    xpc = "done"
        => /\ extracted \in Seq(ExtractAlphabet)
           /\ Len(extracted) <= Len(text)
           /\ (~HasFencedBlock(text) /\ ~HasBracketPair(text))
                  => IsTrimOf(extracted, text)

C10_Witness ==
    /\ xpc = "done"
    /\ text = <<" ", "x", "]", "[", " ">>
    /\ extracted = <<"x", "]", "[">>

----------------------------------------------------------------------------
(* Claims about parsing and its errors                                     *)

\* the messages of the transport and authentication failures
TransportAndAuthMessages ==
    {MsgHttp(st) : st \in HttpFailures} \cup {MsgReject, MsgAfterRetries}
    \cup {MsgBadJson(p) : p \in JsonErrorPositions}

\* the handler of the outcome o reached its JSON.parse
HandlerParsed(o) ==
    /\ o.kind = "response"
    /\ o.keySet
    /\ o.gen.ok
    /\ handlerMatch(o.gen.text).found
    /\ handlerMatch(o.gen.text).cap # <<>>

\* C11: a substring that JSON.parse rejects makes fetchStructuredJobData throw
\* the format error, which is no transport or authentication error and is
\* caught by handleSearch, and makes the handlers answer 500 with their
\* "not valid JSON" error; a substring that JSON.parse accepts is returned
\* parsed (status 200 in the handlers).
C11_MalformedJsonIsAFormatError ==
    /\ (app = "direct" /\ SearchLoopEnded /\ lastOutcome.kind = "ok"
            /\ lastOutcome.body.kind = "text")
        => LET parsed == JSONparse(extractJsonFromText(lastOutcome.body.text))
           IN  IF parsed.ok
               THEN thrown = NoError /\ returned = parsed.val
               ELSE /\ thrown = MsgParse
                    /\ thrown \notin TransportAndAuthMessages
                    /\ returned = NoValue
                    /\ cause = "error"
                    /\ pc = "idle"
    /\ (app = "serverless" /\ HandlerParsed(lastOutcome))
        => LET parsed == JSONparse(handlerMatch(lastOutcome.gen.text).cap)
           IN  IF parsed.ok
               THEN /\ lastOutcome.response.status = 200
                    /\ lastOutcome.response.data = parsed.val
                    /\ returned = parsed.val
               ELSE /\ lastOutcome.response = [status |-> 500, error |-> MsgJobsNotJson]
                    /\ thrown = MsgJobsNotJson
                    /\ pc = "idle"
    /\ (app = "serverless" /\ HandlerParsed(iLastOutcome))
        => LET parsed == JSONparse(handlerMatch(iLastOutcome.gen.text).cap)
           IN  IF parsed.ok
               THEN /\ iLastOutcome.response.status = 200
                    /\ iLastOutcome.response.data = [insights |-> parsed.val]
                    /\ aiInsights = LiveInsights
               ELSE /\ iLastOutcome.response
                          = [status |-> 500, error |-> MsgInsightsNotJson]
                    /\ aiInsights = InsightsFailed(MsgInsightsNotJson)
                    /\ pc = "idle"

TrailingCommaText == <<Fence, JsonTag, "\n", "[", "A", ",", "]", "\n", Fence>>

C11_Witness ==
    /\ app = "direct"
    /\ lastOutcome = [kind |-> "ok", body |-> [kind |-> "text", text |-> TrailingCommaText]]
    /\ thrown = MsgParse
    /\ searchError = DiagCriticalDirect(MsgParse)
    /\ pc = "idle"

\* C12: an HTTP-successful answer whose envelope holds no text makes
\* fetchStructuredJobData throw the empty-response error: neither the extractor
\* nor JSON.parse runs on it, and the error is not the format error.
C12_NoTextIsTheEmptyResponseError ==
    (app = "direct" /\ SearchLoopEnded /\ lastOutcome.kind = "ok"
        /\ lastOutcome.body.kind \in {"null", "notext"})
        => /\ thrown = MsgNoContent
           /\ thrown # MsgParse
           /\ "extract" \notin {stages[i] : i \in 1..Len(stages)}
           /\ "parse" \notin {stages[i] : i \in 1..Len(stages)}

----------------------------------------------------------------------------
(* Claims about the diagnostics and the listings of handleSearch           *)

\* the job-listing stage ended with an error or without any record
FailureCauses == {"auth", "error", "config", "noresults"}

\* the value fetchStructuredJobData returned holds no record
NoRecords == returned = NoValue \/ ~IsArray(returned) \/ Len(returned.items) = 0

\* C13 as stated: after a failure or an empty result searchError is the
\* authentication-failed message iff the failure was a 401, a message that
\* embeds the error text iff another error was thrown, and the no-results
\* message iff the call succeeded without a record.
C13_DiagnosticIsChosenByCause ==
    cause \in FailureCauses
        => /\ searchError = DiagAuthFailed <=> Is401(lastOutcome)
           /\ searchError \in {DiagCriticalDirect(thrown), DiagCritical(thrown)}
                 <=> (thrown # NoError /\ ~Is401(lastOutcome))
           /\ searchError \in {DiagNoResultsDirect, DiagNoResults}
                 <=> (thrown = NoError /\ NoRecords)

\* C13, amended: the direct client chooses as stated; the serverless client
\* has no authentication-failed message, and chooses the configuration-error
\* message iff the error names GEMINI_API_KEY, the message that embeds the
\* error text iff another error was thrown, and its no-results message iff the
\* call succeeded without a record.
C13_DiagnosticIsChosenByCausePerClient ==
    cause \in FailureCauses
        => /\ searchError # NoError
           /\ thrown = NoError => NoRecords
           /\ app = "direct"
                 => /\ searchError = DiagAuthFailed <=> Is401(lastOutcome)
                    /\ searchError = DiagCriticalDirect(thrown)
                          <=> (thrown # NoError /\ ~Is401(lastOutcome))
                    /\ searchError = DiagNoResultsDirect <=> thrown = NoError
                    /\ DiagCriticalDirect(thrown)
                          \notin {DiagAuthFailed, DiagNoResultsDirect}
           /\ app = "serverless"
                 => /\ searchError # DiagAuthFailed
                    /\ searchError = DiagConfig
                          <=> Includes(thrown, <<"GEMINI_API_KEY">>)
                    /\ searchError = DiagCritical(thrown)
                          <=> (thrown # NoError
                                 /\ ~Includes(thrown, <<"GEMINI_API_KEY">>))
                    /\ searchError = DiagNoResults <=> thrown = NoError
                    /\ DiagCritical(thrown) \notin {DiagConfig, DiagNoResults}

C13_Witness ==
    /\ app = "serverless"
    /\ cause = "config"
    /\ thrown = MsgKeyMissing
    /\ searchError = DiagConfig
    /\ pc = "idle"

\* C14: the ids of the listings in jobs are pairwise distinct.
C14_ListingIdsAreUnique ==
    \A i, j \in 1..Len(jobs) : i # j => jobs[i].id # jobs[j].id

\* the urls of the model that are missing, empty, relative or "#"
InertUrls == {UrlNone, UrlStr(<<>>), UrlStr(<<"/", "jobs/1">>), UrlStr(<<"#">>)}

\* C15: a click on a View Job link goes through only when the url of the
\* listing is a text that begins with http:// or https://; the click on a
\* listing whose url is missing, empty, relative or "#" is prevented, and so
\* is the click on every listing of the fallback dataset.
C15_OnlyAbsoluteUrlsAreActionable ==
    /\ (clicked.kind = "click" /\ ~clicked.prevented)
          => /\ clicked.url.k = "str"
             /\ Len(clicked.url.s) >= 1
             /\ clicked.url.s[1] \in {"http://", "https://"}
    /\ (clicked.kind = "click" /\ clicked.url \in InertUrls) => clicked.prevented
    /\ (clicked.kind = "click" /\ isFallbackMode) => clicked.prevented
    /\ \A i \in 1..Len(jobs) : jobs[i].url \in InertUrls => ~isValidUrl(jobs[i])

C15_Witness ==
    /\ clicked = [kind |-> "click", url |-> UrlStr(<<"/", "jobs/1">>),
                  prevented |-> TRUE]
    /\ \E i \in 1..Len(jobs) : jobs[i].title = "B"

----------------------------------------------------------------------------
(* Claims about the insights stage and the course of an invocation         *)

\* the insights request of the outcome o rejected or had a non-success status
InsightsRequestFailed(o) ==
    \/ o.kind \in {"http", "reject", "badjson"}
    \/ o.kind = "response" /\ ~ResponseOk(o.response)

\* the failure message generateAIInsights shows for the outcome o
InsightsFailureShown(o) ==
    IF app = "direct" THEN InsightsFailedDirect
    ELSE InsightsFailed(BackendInsights(o).msg)

\* C16: when the insights stage ends on a failed request, aiInsights becomes
\* the failure message and handleSearch ends, with jobs, searchError and
\* isFallbackMode as the job-listing stage left them; no step of the insights
\* stage changes these three.
C16_InsightsFailureLeavesListings ==
    [][ /\ (pc = "insights_fetch" /\ pc' = "idle"
               /\ InsightsRequestFailed(iLastOutcome'))
            => /\ aiInsights' = InsightsFailureShown(iLastOutcome')
               /\ ~isSearching'
               /\ Len(jobs') > 0
        /\ pc \in {"insights_fetch", "insights_backoff"}
            => UNCHANGED <<jobs, searchError, isFallbackMode>> ]_vars

C16_Witness ==
    /\ app = "direct"
    /\ pc = "idle"
    /\ iLastOutcome = [kind |-> "reject"]
    /\ insightFetches = maxRetries
    /\ aiInsights = InsightsFailedDirect
    /\ cause = "live"
    /\ Len(jobs) > 0
    /\ searchError = NoError

\* handleSearch is suspended on a fetch or on a backoff timer
Waiting ==
    pc \in {"search_fetch", "search_backoff", "insights_fetch", "insights_backoff"}

\* C17: no error escapes handleSearch: an invocation that is not waiting for
\* the network or for a timer has reached its end, with isSearching false and
\* searchProgress cleared.
C17_NoErrorEscapesHandleSearch ==
    ~Waiting => /\ pc = "idle"
                /\ ~isSearching
                /\ searchProgress = ""

\* the place of a stage in the pipeline
StageRank(st) ==
    CASE st = "prompt" -> 1
      [] st = "search" -> 2
      [] st = "extract" -> 3
      [] st = "parse" -> 4
      [] st = "insights" -> 5

\* C18: the stages of an invocation are entered in the order prompt, search,
\* extract, parse, insights; at most one network call is in flight; and an
\* insights request is issued only once the search request has settled with
\* an array of at least one record.
C18_StagesRunInOrder ==
    /\ \A i, j \in 1..Len(stages) :
           i < j => StageRank(stages[i]) < StageRank(stages[j])
    /\ Cardinality(inFlight) <= 1
    /\ "search" \in inFlight => insightFetches = 0
    /\ ("insights" \in inFlight \/ insightFetches > 0)
          => /\ "search" \notin inFlight
             /\ lastOutcome # NoOutcome
             /\ cause = "live"
             /\ IsArray(returned)
             /\ Len(returned.items) > 0
             /\ Len(jobs) = Len(returned.items)
             /\ stages[Len(stages)] = "insights"

C18_Witness ==
    /\ app = "direct"
    /\ pc = "insights_fetch"
    /\ inFlight = {"insights"}
    /\ stages = <<"prompt", "search", "extract", "parse", "insights">>
    /\ searchFetches = 2
    /\ Len(jobs) = 3

----------------------------------------------------------------------------
(* Claims about the credential                                             *)

\* C20: the value of the API key stands in no line written to the console and
\* in no error message thrown or shown.
C20_ApiKeyIsNeverLogged ==
    /\ \A line \in log : ~Includes(line, <<API_KEY>>)
    /\ ~Includes(thrown, <<API_KEY>>)
    /\ ~Includes(testThrown, <<API_KEY>>)
    /\ ~Includes(searchError, <<API_KEY>>)
    /\ ~Includes(aiInsights, <<API_KEY>>)

----------------------------------------------------------------------------
(* Claims about the shape of the parsed value and the insights loop        *)

\* a parsed array with an element that is not a listing object
ShapelessArray(v) ==
    IsArray(v) /\ \E i \in 1..Len(v.items) : v.items[i].t # "obj"

\* C21: a parsed array whose elements do not match the listing shape (such
\* as [1,2,3] taken from unfenced prose) is rejected with a format error and
\* handleSearch takes the fallback edge: fetchStructuredJobData never returns
\* such an array, the job-listing stage never ends as live on one, and no row
\* of jobs is made from an element that is not a listing.
C21_ShapelessArrayIsRejected ==
    /\ ~ShapelessArray(returned)
    /\ (lastOutcome.kind = "ok" /\ lastOutcome.body.kind = "text"
          /\ lastOutcome.body.text = <<"x", " ", "[", "1", ",", "2", ",", "3", "]", " ", "x">>
          /\ SearchLoopEnded)
          => /\ thrown = MsgParse
             /\ cause = "error"
             /\ jobs = FallbackListings
    /\ \A i \in 1..Len(jobs) : jobs[i].title # ""

\* C22: in the retry loop of fetchAIInsights an HTTP 401 is not retried: the
\* loop ends with that attempt, so that a 401 on the first attempt leaves one
\* fetch and no backoff wait, as in the search stage.
C22_Insights401IsNotRetried ==
    (app = "direct" /\ Is401(iLastOutcome))
        => /\ insightFetches = iAttempt + 1
           /\ Len(iWaits) = iAttempt
           /\ inFlight = {}
           /\ pc = "idle"
           /\ aiInsights = InsightsFailedDirect

----------------------------------------------------------------------------
(* Claims about the API key on the client side                             *)

OwnEndpoints == {<<"/api/search">>, <<"/api/insights">>}

\* the tokens of a request: its URL, its header names and values, its body
RequestTokens(r) ==
    {r.url[i] : i \in 1..Len(r.url)}
    \cup {r.headers[i][2] : i \in 1..Len(r.headers)}
    \cup {r.body[i] : i \in 1..Len(r.body)}

\* C23: the API key is never exposed on the client side: every request a
\* client has in flight goes to /api/search or /api/insights and carries the
\* key neither in its URL nor in its headers nor in its body.
C23_ClientRequestsCarryNoCredential ==
    \A call \in inFlight :
        /\ ClientRequest(app, call).url \in OwnEndpoints
        /\ API_KEY \notin RequestTokens(ClientRequest(app, call))

----------------------------------------------------------------------------
(* Claims about the serverless handlers                                    *)

\* C24: both handlers accept only POST: to a request of any other method
\* they answer 405 'Method Not Allowed', and they neither read
\* GEMINI_API_KEY nor call the model.
C24_OnlyPostIsAccepted ==
    (hpc \in {"generating", "done"} /\ hreq.method # "POST")
        => /\ hpc = "done"
           /\ hsent = <<[status |-> 405, error |-> <<"Method Not Allowed">>]>>
           /\ ~hReadKey
           /\ ~hCalledModel

C24_Witness ==
    /\ hpc = "done"
    /\ hreq.handler = "insights"
    /\ hreq.method = "GET"
    /\ hreq.keySet
    /\ hreq.body = "filled"
    /\ hsent = <<[status |-> 405, error |-> <<"Method Not Allowed">>]>>
    /\ ~hReadKey

\* a text holds a fence tagged json whose interior, up to a later fence,
\* parses as JSON
HasJsonBlock(s) ==
    \E i \in 1..Len(s), j \in 1..Len(s) :
        /\ i + 1 < j
        /\ s[i] = Fence
        /\ s[i + 1] = JsonTag
        /\ s[j] = Fence
        /\ JSONparse(SubSeq(s, i + 2, j - 1)).ok

Sent200 == \E k \in 1..Len(hsent) : hsent[k].status = 200

\* C25: the /api/search handler answers 200 only when the model text holds a
\* json-tagged fenced block whose interior parses as JSON; to every model
\* text without such a block (a bare array, an untagged fence) it answers 500
\* with an error, never 200: it has no bracket or raw-text fallback.
C25_HandlerAcceptsOnlyTheTaggedBlock ==
    (hpc = "done" /\ hreq.handler = "search" /\ hCalledModel /\ hreq.gen.ok)
        => /\ Sent200 => HasJsonBlock(hreq.gen.text)
           /\ ~HasJsonBlock(hreq.gen.text)
                 => /\ ~Sent200
                    /\ \E k \in 1..Len(hsent) :
                          /\ hsent[k].status = 500
                          /\ hsent[k].error \in {MsgNotJsonBlock, MsgJobsNotJson}

C25_Witness ==
    /\ hpc = "done"
    /\ hreq.handler = "search"
    /\ hreq.gen.ok
    /\ hreq.gen.text = <<"[", "A", ",", "B", ",", "C", "]">>
    /\ JSONparse(extractJsonFromText(hreq.gen.text)).ok
    /\ hsent = <<[status |-> 500, error |-> MsgNotJsonBlock]>>

\* C26: on every path of the /api/search handler (wrong method, missing key,
\* missing prompt, failure of the model call, missing block, parse failure,
\* success) exactly one response is sent, never none and never two; none is
\* sent before the model call settles, and the one sent is the answer the
\* client is given.
C26_ExactlyOneResponse ==
    hreq.handler = "search"
        => /\ hpc = "done" => Len(hsent) = 1
           /\ hpc = "generating" => hsent = <<>>
           /\ (hpc = "done" /\ hreq.body # "undefined")
                 => hsent[1].status =
                       searchHandler(hreq.method, hreq.keySet,
                                     hreq.body = "filled", hreq.gen).status

C26_Witness ==
    /\ hpc = "done"
    /\ hreq.handler = "search"
    /\ hreq.method = "POST"
    /\ hreq.keySet
    /\ hreq.body = "filled"
    /\ hreq.gen.ok
    /\ hreq.gen.text = <<Fence, JsonTag, "\n", "[", "A", ",", "]", "\n", Fence>>
    /\ hsent = <<[status |-> 500, error |-> MsgJobsNotJson]>>

----------------------------------------------------------------------------
(* Claims about the fallback flag, the feedback map and the Search button  *)

\* C27: once an invocation of handleSearch has completed, isFallbackMode
\* holds exactly when jobs is the hardcoded fallback dataset; and every
\* invocation first resets jobs, searchError, aiInsights and isFallbackMode,
\* so that they are still reset while its search stage runs.
C27_FallbackFlagTellsTheDataset ==
    /\ (pc = "idle" /\ invocation > 0)
          => (isFallbackMode <=> jobs = FallbackListings)
    /\ pc \in {"search_fetch", "search_backoff"}
          => /\ jobs = <<>>
             /\ searchError = NoError
             /\ aiInsights = Unset
             /\ ~isFallbackMode

\* the second invocation of the direct client has completed on the fallback
\* dataset, the parsed value having been an empty array
C27_Witness ==
    /\ app = "direct"
    /\ invocation = 2
    /\ pc = "idle"
    /\ cause = "noresults"
    /\ isFallbackMode
    /\ jobs = FallbackListings

\* what a click of type on the job of id makes of the map f, as g
ToggledTo(f, g, id, type) ==
    /\ IF id \in DOMAIN f /\ f[id] = type
       THEN id \notin DOMAIN g
       ELSE id \in DOMAIN g /\ g[id] = type
    /\ \A k \in (DOMAIN f \cup DOMAIN g) \ {id} :
          k \in DOMAIN f /\ k \in DOMAIN g /\ g[k] = f[k]

\* C28: handleFeedback keeps one value per job id: a click sets the type on a
\* job that has no feedback or has the other type, the same type again
\* removes the entry (so the same click twice on a job without feedback gives
\* the map back), and the entry of every other job id is left as it was.
C28_FeedbackIsToggledPerJob ==
    [][(feedback' # feedback /\ pc' = pc)
          => \E i \in 1..Len(jobs), type \in FeedbackTypes :
                /\ ToggledTo(feedback, feedback', jobs[i].id.s, type)
                /\ ToggledTo(feedback', handleFeedback(feedback', jobs[i].id.s, type),
                             jobs[i].id.s, type)
                /\ jobs[i].id.s \notin DOMAIN feedback
                      => handleFeedback(feedback', jobs[i].id.s, type) = feedback]_vars

C28_Witness ==
    /\ jobs = FallbackListings
    /\ DOMAIN feedback = {"101", "102"}
    /\ feedback["101"] = "positive"
    /\ feedback["102"] = "negative"

\* a step in which an invocation of handleSearch runs to its end
Completes == pc' = "idle" /\ (pc # "idle" \/ invocation' # invocation)

\* C29: feedback is reset for new search results: whenever an invocation of
\* handleSearch completes, on the live path, on the error path or on the
\* forced-fallback path, the feedback map is empty, so that no feedback given
\* on an earlier result set applies to a listing of the new one.
C29_FeedbackIsResetBySearch ==
    [][Completes => feedback' = NoFeedback]_vars

\* C30: from the start of an invocation of handleSearch to its end
\* isSearching is true and the Search button is disabled, so at most one
\* invocation is outstanding at any time, and an invocation starts only when
\* none is outstanding and isSearching is false again.
C30_OneInvocationAtATime ==
    /\ [](/\ outstanding # {} => (isSearching /\ ~SearchButtonEnabled(isSearching))
          /\ Cardinality(outstanding) <= 1)
    /\ [][invocation' # invocation
             => /\ ~isSearching
                /\ outstanding = {}
                /\ isSearching' = (outstanding' # {})]_vars

C30_Witness ==
    /\ invocation = 2
    /\ outstanding = {2}
    /\ pc = "insights_fetch"
    /\ isSearching

====
